---- MODULE Spec2Model ----
(***************************************************************************)
(* Med-Dev (src/app.py): the response validation pipeline (Section Parser, *)
(* Differential-Block Validator, Output Validator) and the bounded         *)
(* retry/repair loop of the "Generate Clinical Analysis" handler.          *)
(*                                                                         *)
(* Text is a sequence of tokens.  A token is one character (" ", "\n",     *)
(* "-", ".", "|", ...) or a word the regular expressions of the program    *)
(* treat atomically (a heading name, "Dx", "Posterior:", a number, a       *)
(* word of free text).  CharLen gives the length in characters of a token. *)
(***************************************************************************)
EXTENDS Integers, Sequences, FiniteSets, TLC

\* ------------------------------------------------------------------ tokens

SECTION_HEADINGS ==
    << "PROBLEM REPRESENTATION", "DOMINANT SYNDROME", "TOP 3 DIFFERENTIALS",
       "RED FLAGS", "BROAD MANAGEMENT PRINCIPLES", "CRITICAL MISSING INFORMATION" >>

\* The same names in lower case (matched because of re.IGNORECASE).
LowerHeadings ==
    << "problem representation", "dominant syndrome", "top 3 differentials",
       "red flags", "broad management principles", "critical missing information" >>

\* A spelling with U+0130 (dotted capital I) in place of "I": re.IGNORECASE
\* matches it, str.upper() leaves U+0130 alone, so it is no key of `canonical`.
DottedHeading == "CR(U+0130)TICAL MISSING INFORMATION"

Range(s) == { s[i] : i \in 1..Len(s) }

\* Tokens HEADINGS_PATTERN matches as a heading name.
HeadingTokens == Range(SECTION_HEADINGS) \cup Range(LowerHeadings) \cup {DottedHeading}

\* str.upper() on a heading token.
Upper(t) ==
    IF \E i \in 1..6 : LowerHeadings[i] = t
    THEN SECTION_HEADINGS[CHOOSE i \in 1..6 : LowerHeadings[i] = t]
    ELSE t

\* \s of the regular expressions and the default str.strip().
IsSpace(t) == t \in {" ", "\n"}

\* ------------------------------------------------------- string helpers

RECURSIVE SkipWhile(_, _, _)
\* The first index >= i of s whose token is not in S (Len(s)+1 if none).
SkipWhile(s, i, S) ==
    IF i > Len(s) \/ s[i] \notin S THEN i ELSE SkipWhile(s, i + 1, S)

RECURSIVE BackWhile(_, _, _)
\* The last index <= i of s whose token is not in S (0 if none).
BackWhile(s, i, S) ==
    IF i < 1 \/ s[i] \notin S THEN i ELSE BackWhile(s, i - 1, S)

\* str.strip(chars): S is the set of stripped characters.
StripSet(s, S) ==
    LET a == SkipWhile(s, 1, S)
        b == BackWhile(s, Len(s), S)
    IN  IF a > b THEN <<>> ELSE SubSeq(s, a, b)

WS == {" ", "\n"}

SetMin(S) == CHOOSE x \in S : \A y \in S : x <= y

\* The element of a one-element set.  { F(x) : x \in {e} } evaluates e once,
\* however often F uses x.
Only(S) == CHOOSE x \in S : TRUE

\* str.strip()
Strip(s) == StripSet(s, WS)

\* ------------------------------------------------------ Section Parser

\* HEADING_SPLIT_REGEX at index i of s: the index of the last token of the
\* match  <heading>\s*-\s*  starting at i, or 0 when there is no match at i.
HeadingMatchEnd(s, i) ==
    IF s[i] \notin HeadingTokens THEN 0
    ELSE LET d == SkipWhile(s, i + 1, WS)
         IN  IF d > Len(s) \/ s[d] # "-" THEN 0
             ELSE SkipWhile(s, d + 1, WS) - 1

RECURSIVE HeadingSplit(_, _, _)
\* re.split(HEADING_SPLIT_REGEX, s) from index i on: the texts between the
\* matches (leftmost first, not overlapping), with the captured heading of
\* each match between them.
HeadingSplit(s, i, acc) ==
    LET I == { k \in i..Len(s) : HeadingMatchEnd(s, k) > 0 }
    IN  IF I = {} THEN Append(acc, SubSeq(s, i, Len(s)))
        ELSE LET k == SetMin(I)
             IN  HeadingSplit(s, HeadingMatchEnd(s, k) + 1,
                              acc \o << SubSeq(s, i, k - 1), << s[k] >> >>)

\* Optional[Dict[str, str]]: None, or a dict as the sequence of its items in
\* insertion order.
NoSections == [isNone |-> TRUE, items |-> <<>>]
SomeSections(items) == [isNone |-> FALSE, items |-> items]

Keys(items) == [k \in 1..Len(items) |-> items[k].heading]
HasKey(items, h) == \E k \in 1..Len(items) : items[k].heading = h

\* sections.get(heading, "") / sections[heading]
Get(items, h) ==
    IF HasKey(items, h)
    THEN items[CHOOSE k \in 1..Len(items) : items[k].heading = h].content
    ELSE <<>>

\* KeysInOrder comparing the keys as a set.
KeysInOrder_AsSet(sections) == Range(Keys(sections)) = Range(SECTION_HEADINGS)

\* list(sections.keys()) != SECTION_HEADINGS, negated.
KeysInOrder(sections) == Keys(sections) = SECTION_HEADINGS

RECURSIVE SectionLoop_KeepsSpace(_, _, _)
\* SectionLoop with  content = parts[i + 1]  (no strip()).
SectionLoop_KeepsSpace(parts, i, sections) ==
    IF i > Len(parts)
    THEN IF ~KeysInOrder(sections) THEN NoSections
         ELSE SomeSections(sections)
    ELSE LET heading_raw == Upper(parts[i][1])
             content == IF i + 1 <= Len(parts) THEN parts[i + 1] ELSE <<>>
         IN  IF heading_raw \notin Range(SECTION_HEADINGS)
             THEN SectionLoop_KeepsSpace(parts, i + 2, sections)
             ELSE IF HasKey(sections, heading_raw) THEN NoSections
             ELSE SectionLoop_KeepsSpace(parts, i + 2,
                     Append(sections, [heading |-> heading_raw, content |-> content]))

RECURSIVE SectionLoop(_, _, _)
\* for i in range(1, len(parts), 2): ... ; then the comparison of the keys.
\* parts is indexed from 1 here: the i of the source is i - 1.
SectionLoop(parts, i, sections) ==
    IF i > Len(parts)
    THEN IF ~KeysInOrder(sections) THEN NoSections
         ELSE SomeSections(sections)
    ELSE LET heading_raw == Upper(parts[i][1])
             content == IF i + 1 <= Len(parts) THEN Strip(parts[i + 1]) ELSE <<>>
         IN  IF heading_raw \notin Range(SECTION_HEADINGS)
             THEN SectionLoop(parts, i + 2, sections)
             ELSE IF HasKey(sections, heading_raw) THEN NoSections
             ELSE SectionLoop(parts, i + 2,
                     Append(sections, [heading |-> heading_raw, content |-> content]))

extract_sections(raw_text) ==
    Only({ IF Len(parts) < 13 THEN NoSections ELSE SectionLoop(parts, 2, <<>>) :
           parts \in { HeadingSplit(Strip(raw_text), 1, <<>>) } })

\* is_complete_sentence without the pattern.
is_complete_sentence_AnyEnd(text) == Strip(text) # <<>>

\* is_complete_sentence with the pattern \.$ .
is_complete_sentence_PeriodOnly(text) ==
    LET stripped == Strip(text)
    IN  stripped # <<>> /\ stripped[Len(stripped)] = "."

\* re.search(r"[.!?]$", stripped): "$" also matches before a final newline,
\* which strip() has removed.
is_complete_sentence(text) ==
    LET stripped == Strip(text)
    IN  stripped # <<>> /\ stripped[Len(stripped)] \in {".", "!", "?"}

\* ------------------------------------------- Differential-Block Validator

\* The token at index i of s; "" (no token) outside s.
At(s, i) == IF i \in 1..Len(s) THEN s[i] ELSE ""

HasNewline(s, i, j) == \E k \in i..j : At(s, k) = "\n"

\* Number tokens ([0-9]+(\.[0-9]+)?) with the value float() gives them, in
\* units of 1/10000.
NumTable ==
    << <<"0", 0>>, <<"0.1", 1000>>, <<"0.3", 3000>>, <<"0.42", 4200>>,
       <<"0.6", 6000>>, <<"1", 10000>>, <<"2", 20000>>, <<"3", 30000>>,
       <<"5", 50000>>, <<"30", 300000>>, <<"42", 420000>>, <<"60", 600000>>,
       <<"85", 850000>>, <<"100", 1000000>>, <<"150", 1500000>> >>

NumTokens == { NumTable[i][1] : i \in 1..Len(NumTable) }
NumValue(t) == NumTable[CHOOSE i \in 1..Len(NumTable) : NumTable[i][1] = t][2]

\* Optional[float]
NoFloat == [isNone |-> TRUE, val |-> 0]
SomeFloat(v) == [isNone |-> FALSE, val |-> v]

\* float(value): an optional sign and a number; ValueError (None) otherwise.
Float(value) ==
    IF Len(value) = 1 /\ value[1] \in NumTokens THEN SomeFloat(NumValue(value[1]))
    ELSE IF Len(value) = 2 /\ value[1] = "-" /\ value[2] \in NumTokens
         THEN SomeFloat(0 - NumValue(value[2]))
    ELSE IF Len(value) = 2 /\ value[1] = "+" /\ value[2] \in NumTokens
         THEN SomeFloat(NumValue(value[2]))
    ELSE NoFloat

\* parse_posterior with  posterior >= 1.0  in the test of line 170.
parse_posterior_DividesOne(raw_value) ==
    LET value0 == Strip(raw_value)
        is_percent == value0 # <<>> /\ value0[Len(value0)] = "%"
        value == IF is_percent THEN Strip(SubSeq(value0, 1, Len(value0) - 1)) ELSE value0
        f == Float(value)
        posterior == IF is_percent THEN f.val \div 100
                     ELSE IF f.val >= 10000 /\ f.val <= 1000000 THEN f.val \div 100
                     ELSE f.val
    IN  IF f.isNone THEN NoFloat
        ELSE IF posterior < 0 \/ posterior > 10000 THEN NoFloat
        ELSE SomeFloat(posterior)

parse_posterior(raw_value) ==
    LET value0 == Strip(raw_value)
        is_percent == value0 # <<>> /\ value0[Len(value0)] = "%"
        value == IF is_percent THEN Strip(SubSeq(value0, 1, Len(value0) - 1)) ELSE value0
        f == Float(value)
        posterior == IF is_percent THEN f.val \div 100
                     ELSE IF f.val > 10000 /\ f.val <= 1000000 THEN f.val \div 100
                     ELSE f.val
    IN  IF f.isNone THEN NoFloat
        ELSE IF posterior < 0 \/ posterior > 10000 THEN NoFloat
        ELSE SomeFloat(posterior)

\* The words of the hierarchy tags: lower case, capitalised, capitals.
Cased ==
    << << "root", "Root", "ROOT" >>,
       << "cause", "Cause", "CAUSE" >>,
       << "rootcause", "Rootcause", "ROOTCAUSE" >>,
       << "primary", "Primary", "PRIMARY" >>,
       << "etiology", "Etiology", "ETIOLOGY" >>,
       << "upstream", "Upstream", "UPSTREAM" >>,
       << "intermediate", "Intermediate", "INTERMEDIATE" >>,
       << "intermediary", "Intermediary", "INTERMEDIARY" >>,
       << "mechanism", "Mechanism", "MECHANISM" >>,
       << "mechanistic", "Mechanistic", "MECHANISTIC" >>,
       << "downstream", "Downstream", "DOWNSTREAM" >>,
       << "complication", "Complication", "COMPLICATION" >>,
       << "effect", "Effect", "EFFECT" >> >>

\* LowerTok without the change of case.
LowerTok_AsWritten(t) == t

\* str.lower() on a token of a hierarchy tag.
LowerTok(t) ==
    IF \E i \in 1..Len(Cased) : t \in { Cased[i][2], Cased[i][3] }
    THEN Cased[CHOOSE i \in 1..Len(Cased) : t \in { Cased[i][2], Cased[i][3] }][1]
    ELSE t

RECURSIVE SubSpaces(_, _)
\* re.sub(r"[\s_]+", "-", s) on the lowered tokens from index i on, joined
\* into one string.
SubSpaces(s, i) ==
    IF i > Len(s) THEN ""
    ELSE IF s[i] \in WS \cup {"_"}
         THEN "-" \o SubSpaces(s, SkipWhile(s, i, WS \cup {"_"}))
         ELSE LowerTok(s[i]) \o SubSpaces(s, i + 1)

alias_map ==
    << <<"root-cause", "root-cause">>,
       <<"rootcause", "root-cause">>,
       <<"primary-cause", "root-cause">>,
       <<"primary-etiology", "root-cause">>,
       <<"upstream-cause", "root-cause">>,
       <<"intermediate-mechanism", "intermediate-mechanism">>,
       <<"intermediary-mechanism", "intermediate-mechanism">>,
       <<"mechanistic-intermediate", "intermediate-mechanism">>,
       <<"downstream-complication", "downstream-complication">>,
       <<"downstream-effect", "downstream-complication">>,
       <<"complication", "downstream-complication">> >>

\* Optional[str]: None is "None", which is no value of alias_map.
normalize_hierarchy(raw_value) ==
    LET normalized == SubSpaces(Strip(raw_value), 1)
    IN  IF \E i \in 1..Len(alias_map) : alias_map[i][1] = normalized
        THEN alias_map[CHOOSE i \in 1..Len(alias_map) : alias_map[i][1] = normalized][2]
        ELSE "None"

RECURSIVE SplitOn(_, _, _, _)
\* re.split over the separator tokens in S, from index i on: every separator
\* token splits (an empty string between two adjacent separators included).
SplitOn(s, i, acc, S) ==
    LET I == { k \in i..Len(s) : s[k] \in S }
    IN  IF I = {} THEN Append(acc, SubSeq(s, i, Len(s)))
        ELSE LET k == SetMin(I)
             IN  SplitOn(s, k + 1, Append(acc, SubSeq(s, i, k - 1)), S)

RECURSIVE CluesOf(_, _)
CluesOf(parts, i) ==
    IF i > Len(parts) THEN <<>>
    ELSE IF Strip(parts[i]) # <<>>
         THEN << StripSet(parts[i], {" ", "."}) >> \o CluesOf(parts, i + 1)
         ELSE CluesOf(parts, i + 1)

\* [c.strip(" .") for c in re.split(r"[;,]", raw_value) if c.strip()]
split_clues(raw_value) == CluesOf(SplitOn(raw_value, 1, <<>>, {";", ","}), 1)

\* Keywords of the block pattern, matched with re.IGNORECASE.
DxKw == {"Dx", "dx"}
PosteriorKw == {"Posterior:", "posterior:"}
HierarchyKw == {"Hierarchy:", "hierarchy:"}
ForKw == {"For:", "for:"}
AgainstKw == {"Against:", "against:"}

\* The split pattern  \s*\|\|\s*|\s*\|\s*(?=Dx[23]:)  at index i of s: the
\* index of the last token of the match starting at i, or 0.  The lookahead is
\* case-sensitive (the split is called without flags).
BlockSepEnd(s, i) ==
    LET b == SkipWhile(s, i, WS)
    IN  IF At(s, b) # "|" THEN 0
        ELSE IF At(s, b + 1) = "|" THEN SkipWhile(s, b + 2, WS) - 1
        ELSE LET d == SkipWhile(s, b + 1, WS)
             IN  IF At(s, d) = "Dx" /\ At(s, d + 1) \in {"2", "3"} /\ At(s, d + 2) = ":"
                 THEN d - 1
                 ELSE 0

RECURSIVE BlockSplit(_, _, _)
\* re.split(r"\s*\|\|\s*|\s*\|\s*(?=Dx[23]:)", s) from index i on.
BlockSplit(s, i, acc) ==
    LET I == { k \in i..Len(s) : BlockSepEnd(s, k) > 0 }
    IN  IF I = {} THEN Append(acc, SubSeq(s, i, Len(s)))
        ELSE LET k == SetMin(I)
             IN  BlockSplit(s, BlockSepEnd(s, k) + 1, Append(acc, SubSeq(s, i, k - 1)))

RECURSIVE StripBlocks(_, _)
\* [b.strip(" |") for b in parts if b.strip()]
StripBlocks(parts, i) ==
    IF i > Len(parts) THEN <<>>
    ELSE IF Strip(parts[i]) # <<>>
         THEN << StripSet(parts[i], {" ", "|"}) >> \o StripBlocks(parts, i + 1)
         ELSE StripBlocks(parts, i + 1)

NoMatch ==
    [ok |-> FALSE, rank |-> "", diagnosis |-> <<>>, posterior |-> <<>>,
     hierarchy |-> <<>>, for |-> <<>>, against |-> <<>>]

\* ClosingIdx with the pattern \)[.!?]?$ .
ClosingIdx_AnyStop(b) ==
    LET n == Len(b)
        C == { c \in 1..n : b[c] = ")" /\
                 SubSeq(b, c + 1, n) \in { <<>>, <<".">>, <<"!">>, <<"?">>, <<"\n">>,
                                           <<".", "\n">>, <<"!", "\n">>, <<"?", "\n">> } }
    IN  IF C = {} THEN 0 ELSE SetMin(C)

\* \)\.?$ : the index of the closing parenthesis, 0 if the block does not end
\* in ")" or ")." ("$" also matches before a final newline).
ClosingIdx(b) ==
    LET n == Len(b)
        C == { c \in 1..n : b[c] = ")" /\
                 SubSeq(b, c + 1, n) \in { <<>>, <<".">>, <<"\n">>, <<".", "\n">> } }
    IN  IF C = {} THEN 0 ELSE SetMin(C)

\* Against:\s*(?P<against>.+?)\)  with "Against:" at index g and the closing
\* parenthesis at c.  "." does not match a newline.
AgainstGroup(b, g, c) ==
    LET ga == SkipWhile(b, g + 1, WS)
    IN  IF ga <= c - 1
        THEN IF HasNewline(b, ga, c - 1) THEN [ok |-> FALSE, val |-> <<>>]
             ELSE [ok |-> TRUE, val |-> SubSeq(b, ga, c - 1)]
        ELSE IF g + 1 <= c - 1 /\ b[c - 1] = " " THEN [ok |-> TRUE, val |-> <<" ">>]
        ELSE [ok |-> FALSE, val |-> <<>>]

\* \s*\|\s*Against: ... at the "|" of index m.
PipeOK(b, m, c) ==
    /\ At(b, m) = "|"
    /\ LET g == SkipWhile(b, m + 1, WS)
       IN  g < c /\ b[g] \in AgainstKw /\ AgainstGroup(b, g, c).ok

\* For:\s*(?P<for>.+?)\s*\|\s*Against:\s*(?P<against>.+?)\)  with "For:" at
\* index f: the lazy group <for> ends before the first "|" from which the rest
\* of the pattern matches.
ForAgainst(b, f, c) ==
    LET fa == SkipWhile(b, f + 1, WS)
        M == { m \in (fa + 1)..(c - 1) :
                 PipeOK(b, m, c) /\ ~HasNewline(b, fa, BackWhile(b, m - 1, WS)) }
    IN  IF M # {}
        THEN LET m == SetMin(M)
             IN  [ok |-> TRUE, for |-> SubSeq(b, fa, BackWhile(b, m - 1, WS)),
                  against |-> AgainstGroup(b, SkipWhile(b, m + 1, WS), c).val]
        ELSE IF PipeOK(b, fa, c) /\ \E j \in (f + 1)..(fa - 1) : b[j] = " "
        THEN [ok |-> TRUE, for |-> <<" ">>,
              against |-> AgainstGroup(b, SkipWhile(b, fa + 1, WS), c).val]
        ELSE [ok |-> FALSE, for |-> <<>>, against |-> <<>>]

\* The pattern from  \[Posterior:  on, tried with "[" at index p.
Rest(b, p, c) ==
    LET i1 == SkipWhile(b, p + 2, WS)
        i2 == IF At(b, i1 + 1) = "%" THEN i1 + 2 ELSE i1 + 1
        i3 == SkipWhile(b, i2 + 1, WS)
        h0 == SkipWhile(b, i3 + 2, WS)
        R  == { r \in h0..Len(b) : b[r] = "]" }
        r  == IF R = {} THEN 0 ELSE SetMin(R)
        i4 == SkipWhile(b, r + 1, WS)
        fa == ForAgainst(b, i4 + 1, c)
    IN  IF /\ At(b, p) = "[" /\ At(b, p + 1) \in PosteriorKw
           /\ At(b, i1) \in NumTokens /\ At(b, i2) = "]"
           /\ At(b, i3) = "[" /\ At(b, i3 + 1) \in HierarchyKw
           /\ r > 0 /\ (r > h0 \/ h0 > i3 + 2)
           /\ At(b, i4) = "(" /\ At(b, i4 + 1) \in ForKw
           /\ fa.ok
        THEN [ok |-> TRUE, rank |-> b[2], diagnosis |-> <<>>,
              posterior |-> SubSeq(b, i1, i2 - 1),
              hierarchy |-> IF r > h0 THEN SubSeq(b, h0, r - 1) ELSE << b[h0 - 1] >>,
              for |-> fa.for, against |-> fa.against]
        ELSE NoMatch

\* pattern.match(block): the groups of the match, or no match.  The lazy
\* group <diagnosis> ends before the first "[Posterior:" from which the rest
\* of the pattern matches up to the end of the block.
BlockMatch(b) ==
    LET c == ClosingIdx(b)
        a == SkipWhile(b, 4, WS)
        P == { p \in (a + 1)..c :
                 Rest(b, p, c).ok /\ ~HasNewline(b, a, BackWhile(b, p - 1, WS)) }
    IN  IF ~(Len(b) >= 3 /\ b[1] \in DxKw /\ b[2] \in {"1", "2", "3"} /\ b[3] = ":" /\ c > 0)
        THEN NoMatch
        ELSE IF P # {}
        THEN LET p == SetMin(P)
             IN  [Rest(b, p, c) EXCEPT !.diagnosis = SubSeq(b, a, BackWhile(b, p - 1, WS))]
        ELSE IF Rest(b, a, c).ok /\ \E j \in 4..(a - 1) : b[j] = " "
        THEN [Rest(b, a, c) EXCEPT !.diagnosis = <<" ">>]
        ELSE NoMatch

RECURSIVE CharLen(_)
\* len() of a text: the characters of its tokens.
CharLen(s) == IF s = <<>> THEN 0 ELSE Len(Head(s)) + CharLen(Tail(s))

expected_hierarchy == << "root-cause", "intermediate-mechanism", "downstream-complication" >>

\* The rank of a match as an integer.
RankOf(t) == CASE t = "1" -> 1 [] t = "2" -> 2 [] t = "3" -> 3 [] OTHER -> 0

\* One pass of the body of  for idx, block in enumerate(blocks, start=1):
\* FALSE where the body returns False.
BlockOK(block, idx) ==
    \E match \in { BlockMatch(block) } :
        /\ match.ok
        /\ RankOf(match.rank) = idx
        /\ normalize_hierarchy(match.hierarchy) # "None"
        /\ normalize_hierarchy(match.hierarchy) = expected_hierarchy[idx]
        /\ ~parse_posterior(match.posterior).isNone
        /\ CharLen(Strip(match.diagnosis)) >= 3
        /\ Len(split_clues(match.for)) >= 3
        /\ Len(split_clues(match.against)) >= 1

\* Descending with >= in place of > .
Descending_AllowsEqual(blocks) ==
    \E posteriors \in { [i \in 1..3 |-> parse_posterior(BlockMatch(blocks[i]).posterior).val] } :
        posteriors[1] >= posteriors[2] /\ posteriors[2] >= posteriors[3]

\* posteriors[0] > posteriors[1] > posteriors[2]
Descending(blocks) ==
    \E posteriors \in { [i \in 1..3 |-> parse_posterior(BlockMatch(blocks[i]).posterior).val] } :
        posteriors[1] > posteriors[2] /\ posteriors[2] > posteriors[3]

\* has_three_supported_differentials with  len(blocks) < 3  as the count test.
has_three_supported_differentials_AtLeastThree(top3_line) ==
    \E blocks \in { StripBlocks(BlockSplit(Strip(top3_line), 1, <<>>), 1) } :
        IF Len(blocks) < 3 THEN FALSE
        ELSE /\ \A idx \in 1..3 : \E block \in { blocks[idx] } : BlockOK(block, idx)
             /\ Descending(blocks)

has_three_supported_differentials(top3_line) ==
    \E blocks \in { StripBlocks(BlockSplit(Strip(top3_line), 1, <<>>), 1) } :
        IF Len(blocks) # 3 THEN FALSE
        ELSE /\ \A idx \in 1..3 : \E block \in { blocks[idx] } : BlockOK(block, idx)
             /\ Descending(blocks)

\* ----------------------------------------------------- Output Validator

is_valid_output(text) ==
    IF text = <<>> \/ Strip(text) = <<>> THEN FALSE
    ELSE \E sections \in { extract_sections(text) } :
            IF sections.isNone THEN FALSE
            ELSE /\ \A h \in 1..6 :
                       \E content \in { Strip(Get(sections.items, SECTION_HEADINGS[h])) } :
                           content # <<>> /\ is_complete_sentence(content)
                 /\ has_three_supported_differentials(
                       Get(sections.items, "TOP 3 DIFFERENTIALS"))

\* ------------------------------------------------ texts given to the code
\* A differentials line is described by its entries, written out after the
\* template of the user prompt; a response by its headed sections.

RECURSIVE Join(_, _, _)
\* The items from index i on, sep between any two.
Join(items, i, sep) ==
    IF i > Len(items) THEN <<>>
    ELSE IF i = Len(items) THEN items[i]
    ELSE items[i] \o sep \o Join(items, i + 1, sep)

\* One entry in the template
\*   Dx1: <diagnosis> [Posterior: <p>] [Hierarchy: <tag>] (For: a; b; c | Against: d)
\* A blank entry is the empty text between two separators.
RenderEntry(e) ==
    IF e.kind = "blank" THEN <<>>
    ELSE << e.dx, e.rank, ":", " " >> \o e.diagnosis
         \o << " ", "[", "Posterior:", " " >> \o e.posterior
         \o << "]", " ", "[", "Hierarchy:", " " >> \o e.hierarchy
         \o << "]", " ", "(", "For:", " " >> \o Join(e.for, 1, << ";", " " >>)
         \o << " ", "|", " ", "Against:", " " >> \o Join(e.against, 1, << ";", " " >>)
         \o << ")" >> \o e.tail

\* The separator written before an entry: " || " of the template, or a single
\* pipe.
RenderSep(e) ==
    CASE e.sep = "||" -> << " ", "|", "|", " " >>
      [] e.sep = "|" -> << " ", "|", " " >>
      [] OTHER -> <<>>

RECURSIVE RenderTop3(_, _)
RenderTop3(entries, i) ==
    IF i > Len(entries) THEN <<>>
    ELSE RenderSep(entries[i]) \o RenderEntry(entries[i]) \o RenderTop3(entries, i + 1)

Entry(rank, posterior, hierarchy, sep) ==
    [kind |-> "entry", dx |-> "Dx", rank |-> rank, diagnosis |-> << "sepsis" >>,
     posterior |-> posterior, hierarchy |-> hierarchy,
     for |-> << <<"w">>, <<"w">>, <<"w">> >>, against |-> << <<"w">> >>,
     tail |-> <<>>, sep |-> sep]

BlankEntry(sep) == [Entry("", <<>>, <<>>, sep) EXCEPT !.kind = "blank"]

\* The three entries of the template, with descending posteriors.
TemplateEntries ==
    << Entry("1", << "0.6" >>, << "root", "-", "cause" >>, ""),
       Entry("2", << "0.3" >>, << "intermediate", "-", "mechanism" >>, "||"),
       Entry("3", << "0.1" >>, << "downstream", "-", "complication" >>, "||") >>

\* One headed section: the heading, the separator " - " (when sep) and the
\* body, on a line of its own.  The body of the differentials section is the
\* line of the entries, then g.body (the sentence stop).
RenderSection(g, entries) ==
    << g.heading >> \o (IF g.sep THEN << " ", "-", " " >> ELSE << " " >>)
    \o (IF g.top3 THEN RenderTop3(entries, 1) ELSE <<>>) \o g.body \o << "\n" >>

RECURSIVE RenderDoc(_, _, _)
RenderDoc(segs, entries, i) ==
    IF i > Len(segs) THEN <<>>
    ELSE RenderSection(segs[i], entries) \o RenderDoc(segs, entries, i + 1)

Sentence == << "w", " ", "w", "." >>

\* The six sections of the user prompt in order, the differentials line
\* closed by `stop`.
TemplateDoc(stop) ==
    [h \in 1..6 |->
        [heading |-> SECTION_HEADINGS[h], sep |-> TRUE, top3 |-> (h = 3),
         body |-> IF h = 3 THEN stop ELSE Sentence]]

\* ------------------------------------------------------------- the state

max_attempts == 4

\* Submissions (clicks on "Generate Clinical Analysis") in one session.
MaxSubmissions == 2

\* Optional[str]: None as a text no response holds.
NoText == << "None" >>
NoMessage == "None"

GenerationFailed == "Generation failed. Please retry."
UnableToGenerate ==
    "Unable to generate a complete 6-section analysis after retries. Please rerun."
PartialWarning ==
    "Output shown, but strict Bayesian/schema enforcement was partial. Click generate again for a stricter pass."

\* Python truth of an Optional[str].
Truthy(text) == text # NoText /\ text # <<>>

VARIABLES
    \* st.session_state
    raw_output, repair_used, generation_error, generation_warning,
    \* the handler of the button: where it is, and its locals
    pc, attempt, best_candidate, candidate, likely_truncated,
    \* what the page shows after the run
    shown,
    \* the session: submissions so far; the model calls of this submission:
    \* how many, the latest response, the latest non-empty
    \* candidate, whether a call raised
    submissions, calls, lastCall, lastNonEmpty, raised,
    \* the case data of the submission and the user message of the latest
    \* request
    case_input, request,
    \* the validators applied to one text: the text given, as described and
    \* as written out, and the results
    \* (edits: how far the text is from the template of the prompt)
    entries, segments, edits, raw_text, sections, valid, top3_line, top3_ok,
    \* parse_posterior and normalize_hierarchy applied to one value: the
    \* argument and the results
    raw_value, posterior, hierarchy

loopVars == << raw_output, repair_used, generation_error, generation_warning,
               pc, attempt, best_candidate, candidate, likely_truncated, shown,
               submissions, calls, lastCall, lastNonEmpty, raised,
               case_input, request >>
valueVars == << raw_value, posterior, hierarchy >>
textVars == << entries, segments, edits, raw_text, sections, valid, top3_line, top3_ok,
               valueVars >>
vars == << loopVars, textVars >>

\* --------------------------------------------------- the model endpoint

\* Responses of client.chat.completions.create: choices may be empty, the
\* message and its content may be None, finish_reason may be None.
SampleValid == RenderDoc(TemplateDoc(<< "." >>), TemplateEntries, 1)
\* No sentence stop after the differentials line.
SampleOpen == RenderDoc(TemplateDoc(<<>>), TemplateEntries, 1)
\* The last heading is missing.
SampleShort == RenderDoc(SubSeq(TemplateDoc(<< "." >>), 1, 5), TemplateEntries, 1)

Contents == { NoText, << " ", "\n" >>, << "\n" >> \o SampleValid, SampleOpen, SampleShort }

FinishReasons == { "None", "stop", "length", "max_tokens", "LENGTH" }

Responses ==
    { [choices |-> FALSE, message |-> FALSE, content |-> NoText, finish_reason |-> "None"] }
    \cup [choices : {TRUE}, message : {FALSE}, content : {NoText}, finish_reason : FinishReasons]
    \cup [choices : {TRUE}, message : {TRUE}, content : Contents, finish_reason : FinishReasons]

\* FinishOf without .lower().
FinishOf_NoLower(response) ==
    IF ~response.choices \/ response.finish_reason = "None" THEN ""
    ELSE response.finish_reason

\* (getattr(choice0, "finish_reason", "") or "").lower()
FinishOf(response) ==
    IF ~response.choices \/ response.finish_reason = "None" THEN ""
    ELSE IF response.finish_reason = "LENGTH" THEN "length"
    ELSE response.finish_reason

\* (getattr(message, "content", "") or "").strip()
CandidateOf(response) ==
    IF ~response.choices \/ ~response.message \/ response.content = NoText THEN <<>>
    ELSE Strip(response.content)

\* finish_reason in {"length", "max_tokens"}
Truncated(response) == FinishOf(response) \in {"length", "max_tokens"}

\* The completion reports that the token limit cut it off: its finish reason
\* is "length" or "max_tokens", in any letter case.
ReportsTruncation(response) ==
    response.choices /\ response.finish_reason \in {"length", "max_tokens", "LENGTH"}

\* The text of a response, without the white space around it.
TextOf(response) ==
    IF response.choices /\ response.message /\ response.content # NoText
    THEN Strip(response.content) ELSE <<>>

\* What one call adds to the record of the calls of the submission.
Observe(response) ==
    LET seen == [candidate |-> TextOf(response), truncated |-> ReportsTruncation(response)]
    IN  /\ calls' = calls + 1
        /\ lastCall' = seen
        /\ lastNonEmpty' = IF seen.candidate # <<>> THEN seen.candidate ELSE lastNonEmpty
        /\ raised' = FALSE

NoCall == [candidate |-> <<>>, truncated |-> FALSE]

\* A call that raises adds nothing but the fact.
ObserveRaise ==
    /\ calls' = calls + 1
    /\ raised' = TRUE
    /\ UNCHANGED << lastCall, lastNonEmpty >>

\* ------------------------------------------------------ the retry loop

\* case_input: the fields of the form, one to a line.
CaseInputs ==
    { << "Age:", " ", "30", "\n" >>, << "Age:", " ", "60", "\n" >> }

\* The user message of a request: the template it is written after, the case
\* data and the prior output put into it, and whether the REPAIR MODE
\* paragraph follows.
NoRequest ==
    [template |-> "None", case_data |-> <<>>, prior_output |-> <<>>, repair_mode |-> FALSE]

build_user_prompt(case) ==
    [template |-> "user", case_data |-> case, prior_output |-> <<>>, repair_mode |-> FALSE]

build_repair_prompt(case, prior_output) ==
    [template |-> "repair", case_data |-> case, prior_output |-> prior_output,
     repair_mode |-> FALSE]

\* The session state as the script creates it, and the handler not started.
InitSession ==
    /\ raw_output = NoText
    /\ repair_used = FALSE
    /\ generation_error = NoMessage
    /\ generation_warning = NoMessage
    /\ attempt = 0
    /\ best_candidate = <<>>
    /\ candidate = <<>>
    /\ likely_truncated = FALSE
    /\ shown = {}
    /\ submissions = 0
    /\ calls = 0
    /\ lastCall = NoCall
    /\ lastNonEmpty = <<>>
    /\ raised = FALSE
    /\ case_input = <<>>
    /\ request = NoRequest

InitLoop == InitSession /\ pc = "idle"

\* parse_posterior and normalize_hierarchy not called.
InitValue ==
    /\ raw_value = <<>>
    /\ posterior = NoFloat
    /\ hierarchy = "None"

InitText ==
    /\ entries = <<>>
    /\ segments = <<>>
    /\ edits = 0
    /\ raw_text = <<>>
    /\ sections = NoSections
    /\ valid = FALSE
    /\ top3_line = <<>>
    /\ top3_ok = FALSE
    /\ InitValue

\* Submit without the reset of generation_error.
Submit_KeepsError ==
    /\ pc \in {"idle", "done"}
    /\ submissions < MaxSubmissions
    /\ submissions' = submissions + 1
    /\ raw_output' = NoText
    /\ generation_warning' = NoMessage
    /\ repair_used' = FALSE
    /\ best_candidate' = <<>>
    /\ attempt' = 0
    /\ pc' = "attempt"
    /\ candidate' = <<>>
    /\ likely_truncated' = FALSE
    /\ calls' = 0
    /\ lastCall' = NoCall
    /\ lastNonEmpty' = <<>>
    /\ raised' = FALSE
    /\ case_input' \in CaseInputs
    /\ request' = NoRequest
    /\ UNCHANGED << generation_error, shown, textVars >>

\* The button is clicked: the session fields are reset and the loop starts.
Submit ==
    /\ pc \in {"idle", "done"}
    /\ submissions < MaxSubmissions
    /\ submissions' = submissions + 1
    /\ raw_output' = NoText
    /\ generation_error' = NoMessage
    /\ generation_warning' = NoMessage
    /\ repair_used' = FALSE
    /\ best_candidate' = <<>>
    /\ attempt' = 0
    /\ pc' = "attempt"
    /\ candidate' = <<>>
    /\ likely_truncated' = FALSE
    /\ calls' = 0
    /\ lastCall' = NoCall
    /\ lastNonEmpty' = <<>>
    /\ raised' = FALSE
    /\ case_input' \in CaseInputs
    /\ request' = NoRequest
    /\ UNCHANGED << shown, textVars >>

\* Except with the exception caught inside the loop: the next attempt follows.
Except_KeepsGoing ==
    /\ generation_error' = GenerationFailed
    /\ pc' = "attempt"
    /\ attempt' = attempt + 1
    /\ UNCHANGED << raw_output, generation_warning, best_candidate,
                    candidate, likely_truncated >>

\* Except showing the best candidate so far beside the error.
Except_ShowsBest ==
    /\ generation_error' = GenerationFailed
    /\ raw_output' = IF best_candidate # <<>> THEN best_candidate ELSE raw_output
    /\ pc' = "render"
    /\ UNCHANGED << generation_warning, best_candidate, attempt,
                    candidate, likely_truncated >>

\* except Exception: the loop is left, whatever it had reached.
Except ==
    /\ generation_error' = GenerationFailed
    /\ pc' = "render"
    /\ UNCHANGED << raw_output, generation_warning, best_candidate, attempt,
                    candidate, likely_truncated >>

\* RepairMode with the first attempt counted as a repair.
RepairMode_Always(n) == n >= 0

\* if attempt > 0: the request is sent in repair mode and the marker is set.
RepairMode(n) == n > 0

\* BestAfter keeping the first candidate instead of the latest.
BestAfter_KeepsFirst(best, text) == IF best # <<>> THEN best ELSE text

\* if candidate: best_candidate = candidate
BestAfter(best, text) == IF text # <<>> THEN text ELSE best

\* NextAttempt without the increment.
NextAttempt_Stuck(n) == n

\* The next value of  for attempt in range(max_attempts).
NextAttempt(n) == n + 1

\* current_user_prompt: user_prompt, with the REPAIR MODE paragraph after the
\* first attempt.
current_user_prompt ==
    [build_user_prompt(case_input) EXCEPT !.repair_mode = RepairMode(attempt)]

\* One pass of the loop up to the candidate: the request of the attempt and
\* what is read off its response.
InitialCall ==
    /\ pc = "attempt"
    /\ attempt < max_attempts
    /\ \E response \in Responses :
        /\ Observe(response)
        /\ candidate' = CandidateOf(response)
        /\ likely_truncated' = Truncated(response)
        /\ repair_used' = (repair_used \/ RepairMode(attempt) \/ Truncated(response))
        /\ best_candidate' = BestAfter(best_candidate, CandidateOf(response))
    /\ request' = current_user_prompt
    /\ pc' = "validate"
    /\ UNCHANGED << raw_output, generation_error, generation_warning, attempt,
                    shown, submissions, case_input, textVars >>

\* The request of the attempt raises.
InitialRaise ==
    /\ pc = "attempt"
    /\ attempt < max_attempts
    /\ repair_used' = (repair_used \/ RepairMode(attempt))
    /\ request' = current_user_prompt
    /\ ObserveRaise
    /\ Except
    /\ UNCHANGED << shown, submissions, case_input, textVars >>

\* AcceptsInitial without the truncation test.
AcceptsInitial_IgnoringTruncation == candidate # <<>> /\ is_valid_output(candidate)

\* if candidate and is_valid_output(candidate) and not likely_truncated
AcceptsInitial == candidate # <<>> /\ is_valid_output(candidate) /\ ~likely_truncated

\* WantsRepair without the truncation test.
WantsRepair_EvenTruncated == candidate # <<>>

\* if candidate and not likely_truncated
WantsRepair == candidate # <<>> /\ ~likely_truncated

AcceptInitial ==
    /\ pc = "validate"
    /\ AcceptsInitial
    /\ raw_output' = candidate
    /\ pc' = "after_loop"
    /\ UNCHANGED << repair_used, generation_error, generation_warning, attempt,
                    best_candidate, candidate, likely_truncated, shown, submissions,
                    calls, lastCall, lastNonEmpty, raised, case_input,
                    request, textVars >>

\* Neither accepted nor repaired: the next pass of the loop.
SkipRepair ==
    /\ pc = "validate"
    /\ ~AcceptsInitial
    /\ ~WantsRepair
    /\ attempt' = NextAttempt(attempt)
    /\ pc' = "attempt"
    /\ UNCHANGED << raw_output, repair_used, generation_error, generation_warning,
                    best_candidate, candidate, likely_truncated, shown, submissions,
                    calls, lastCall, lastNonEmpty, raised, case_input,
                    request, textVars >>

\* if repaired_candidate and is_valid_output(repaired_candidate) and not repaired_truncated
AcceptsRepaired(repaired_candidate, repaired_truncated) ==
    repaired_candidate # <<>> /\ is_valid_output(repaired_candidate) /\ ~repaired_truncated

\* The dedicated repair request and what follows in the pass: the repaired
\* candidate is accepted (break) or the loop goes on.
RepairCall ==
    /\ pc = "validate"
    /\ ~AcceptsInitial
    /\ WantsRepair
    /\ repair_used' = TRUE
    /\ request' = build_repair_prompt(case_input, candidate)
    /\ \E response \in Responses :
        LET repaired_candidate == CandidateOf(response)
            repaired_truncated == Truncated(response)
        IN  /\ Observe(response)
            /\ best_candidate' = BestAfter(best_candidate, repaired_candidate)
            /\ IF AcceptsRepaired(repaired_candidate, repaired_truncated)
               THEN /\ raw_output' = repaired_candidate
                    /\ pc' = "after_loop"
                    /\ attempt' = attempt
               ELSE /\ raw_output' = raw_output
                    /\ pc' = "attempt"
                    /\ attempt' = NextAttempt(attempt)
    /\ UNCHANGED << generation_error, generation_warning, candidate, likely_truncated,
                    shown, submissions, case_input, textVars >>

\* The repair request raises.
RepairRaise ==
    /\ pc = "validate"
    /\ ~AcceptsInitial
    /\ WantsRepair
    /\ repair_used' = TRUE
    /\ request' = build_repair_prompt(case_input, candidate)
    /\ ObserveRaise
    /\ Except
    /\ UNCHANGED << shown, submissions, case_input, textVars >>

\* range(max_attempts) is used up.
LoopEnd ==
    /\ pc = "attempt"
    /\ attempt >= max_attempts
    /\ pc' = "after_loop"
    /\ UNCHANGED << raw_output, repair_used, generation_error, generation_warning,
                    attempt, best_candidate, candidate, likely_truncated, shown,
                    submissions, calls, lastCall, lastNonEmpty, raised,
                    case_input, request, textVars >>

\* if not st.session_state.raw_output: the best candidate with the warning,
\* or the error.
AfterLoop ==
    /\ pc = "after_loop"
    /\ IF ~Truthy(raw_output)
       THEN IF best_candidate # <<>>
            THEN /\ raw_output' = best_candidate
                 /\ generation_warning' = PartialWarning
                 /\ generation_error' = generation_error
            ELSE /\ generation_error' = UnableToGenerate
                 /\ UNCHANGED << raw_output, generation_warning >>
       ELSE UNCHANGED << raw_output, generation_warning, generation_error >>
    /\ pc' = "render"
    /\ UNCHANGED << repair_used, attempt, best_candidate, candidate, likely_truncated,
                    shown, submissions, calls, lastCall, lastNonEmpty,
                    raised, case_input, request, textVars >>

\* Render with the repair notice beside every output.
Render_NoticeAlways ==
    /\ pc = "render"
    /\ shown' = (IF generation_error # NoMessage THEN {"error"} ELSE {})
                \cup (IF generation_warning # NoMessage THEN {"warning"} ELSE {})
                \cup (IF Truthy(raw_output) THEN {"output"} ELSE {})
                \cup (IF Truthy(raw_output) THEN {"repair_notice"} ELSE {})
    /\ pc' = "done"
    /\ UNCHANGED << raw_output, repair_used, generation_error, generation_warning,
                    attempt, best_candidate, candidate, likely_truncated,
                    submissions, calls, lastCall, lastNonEmpty, raised,
                    case_input, request, textVars >>

\* The output rendering at the end of the script.
Render ==
    /\ pc = "render"
    /\ shown' = (IF generation_error # NoMessage THEN {"error"} ELSE {})
                \cup (IF generation_warning # NoMessage THEN {"warning"} ELSE {})
                \cup (IF Truthy(raw_output) THEN {"output"} ELSE {})
                \cup (IF Truthy(raw_output) /\ repair_used THEN {"repair_notice"} ELSE {})
    /\ pc' = "done"
    /\ UNCHANGED << raw_output, repair_used, generation_error, generation_warning,
                    attempt, best_candidate, candidate, likely_truncated,
                    submissions, calls, lastCall, lastNonEmpty, raised,
                    case_input, request, textVars >>

Init == InitLoop /\ InitText

Next ==
    \/ Submit
    \/ InitialCall
    \/ InitialRaise
    \/ AcceptInitial
    \/ SkipRepair
    \/ RepairCall
    \/ RepairRaise
    \/ LoopEnd
    \/ AfterLoop
    \/ Render

Spec == Init /\ [][Next]_vars

\* The steps of the handler once the button is clicked.
Run == InitialCall \/ InitialRaise \/ AcceptInitial \/ SkipRepair \/ RepairCall
       \/ RepairRaise \/ LoopEnd \/ AfterLoop \/ Render

\* ------------------------------------- the validators on texts given to them
\* A text given to a validator is the template of the user prompt with at
\* most MaxEdits edits made to it, one edit a step.

MaxEdits == 2

ButLast(s) == SubSeq(s, 1, Len(s) - 1)

EntryIdx(E) == { i \in 1..Len(E) : E[i].kind = "entry" }

\* Posteriors written into an entry: a bare probability, a percentage with
\* and without the percent sign.
PosteriorTexts == { << "0.3" >>, << "30", "%" >>, << "60" >> }

\* Items added to a clue list: a word, a lone period, a blank.
ClueTexts == { << "w" >>, << "." >>, << " " >> }

\* An empty block (a doubled, leading or trailing separator) after entry k.
InsertBlank(E, k) ==
    IF k = 0 THEN << BlankEntry("") >> \o [E EXCEPT ![1].sep = "||"]
    ELSE SubSeq(E, 1, k) \o << BlankEntry("||") >> \o SubSeq(E, k + 1, Len(E))

\* The line without entry i, and with one entry more at its end.
DropEntry(E, i) ==
    IF i = 1 THEN [SubSeq(E, 2, Len(E)) EXCEPT ![1].sep = ""]
    ELSE SubSeq(E, 1, i - 1) \o SubSeq(E, i + 1, Len(E))
AddEntry(E) == Append(E, Entry("3", << "0.1" >>, << "complication" >>, "||"))

\* The differentials lines one edit away from the line of E.
DiffEdits(E) ==
    { [E EXCEPT ![i].rank = r] : i \in EntryIdx(E), r \in {"1", "2", "3"} }
    \cup { [E EXCEPT ![i].posterior = p] : i \in EntryIdx(E), p \in PosteriorTexts }
    \cup { [E EXCEPT ![i].for = ButLast(@)] : i \in { j \in EntryIdx(E) : E[j].for # <<>> } }
    \cup { [E EXCEPT ![i].against = ButLast(@)] :
             i \in { j \in EntryIdx(E) : E[j].against # <<>> } }
    \cup { [E EXCEPT ![i].for = Append(@, c)] : i \in EntryIdx(E), c \in ClueTexts }
    \cup { [E EXCEPT ![i].against = Append(@, c)] : i \in EntryIdx(E), c \in ClueTexts }
    \cup { InsertBlank(E, k) : k \in 0..Len(E) }
    \cup { DropEntry(E, i) : i \in { j \in EntryIdx(E) : Len(E) > 1 } }
    \cup { AddEntry(E) }
    \cup { [E EXCEPT ![i].sep = "|"] : i \in { j \in EntryIdx(E) : E[j].sep = "||" } }

\* Posteriors and hierarchy tags written into the entries of a response.
DocPosteriorTexts == { << "60", "%" >>, << "30" >> }
HierarchyTexts == { << "Root", " ", "Cause" >>, << "complication" >> }

\* The differentials lines of a response one edit away from the line of E.
DocEntryEdits(E) ==
    { [E EXCEPT ![i].posterior = p] : i \in 1..Len(E), p \in DocPosteriorTexts }
    \cup { [E EXCEPT ![i].hierarchy = h] : i \in 1..Len(E), h \in HierarchyTexts }
    \cup { [E EXCEPT ![i].for = ButLast(@)] : i \in { j \in 1..Len(E) : E[j].for # <<>> } }
    \cup { [E EXCEPT ![i].for = Append(@, << "w" >>)] : i \in 1..Len(E) }

\* The sections edited: the first, the differentials and the last.
EditedHeadings == { SECTION_HEADINGS[1], SECTION_HEADINGS[3], SECTION_HEADINGS[6] }

HeadingNo(h) == CHOOSE k \in 1..6 : SECTION_HEADINGS[k] = Upper(h)

\* Bodies written into a section, and stops written after the differentials
\* line.
BodyTexts == { <<>>, << "w" >>, << "w", "!" >>, << "w", "?" >> }
StopTexts == { <<>>, << "!" >>, << "?" >>, << " ", "." >> }

\* Text before the first heading.
Preamble == [heading |-> "w", sep |-> FALSE, top3 |-> FALSE, body |-> << "w", "." >>]

\* A line of white space.
BlankLine == [heading |-> " ", sep |-> FALSE, top3 |-> FALSE, body |-> <<>>]

Remove(S, i) == SubSeq(S, 1, i - 1) \o SubSeq(S, i + 1, Len(S))
Swap(S, i) == [S EXCEPT ![i] = S[i + 1], ![i + 1] = S[i]]

\* The responses one edit away from D: a section dropped, repeated at the
\* end, exchanged with the next, written without separator, in lower case,
\* with U+0130, with another body; text before the first heading; nothing at
\* all, or white space only; an edit of the differentials line.
DocEdits(D) ==
    LET S == D.segments
        I == { i \in 1..Len(S) : Upper(S[i].heading) \in EditedHeadings }
    IN  { [D EXCEPT !.segments = Remove(S, i)] : i \in I }
        \cup { [D EXCEPT !.segments = Append(S, S[i])] : i \in I }
        \cup { [D EXCEPT !.segments = Swap(S, i)] : i \in I \cap 1..(Len(S) - 1) }
        \cup { [D EXCEPT !.segments[i].sep = FALSE] : i \in I }
        \cup { [D EXCEPT !.segments[i].heading = LowerHeadings[HeadingNo(@)]] : i \in I }
        \cup { [D EXCEPT !.segments[i].heading = DottedHeading] :
                 i \in { j \in I : S[j].heading = SECTION_HEADINGS[6] } }
        \cup { [D EXCEPT !.segments[i].body = b] :
                 i \in { j \in I : ~S[j].top3 }, b \in BodyTexts }
        \cup { [D EXCEPT !.segments[i].body = b] :
                 i \in { j \in I : S[j].top3 }, b \in StopTexts }
        \cup { [D EXCEPT !.segments = << Preamble >> \o S] }
        \cup { [D EXCEPT !.segments = <<>>], [D EXCEPT !.segments = << BlankLine >>] }
        \cup { [D EXCEPT !.entries = E] : E \in DocEntryEdits(D.entries) }

\* The template of the prompt, as the response to be given to the Section
\* Parser and the Output Validator.
InitDoc ==
    /\ InitSession
    /\ pc = "given"
    /\ segments = TemplateDoc(<< "." >>)
    /\ entries = TemplateEntries
    /\ edits = 0
    /\ raw_text = RenderDoc(segments, entries, 1)
    /\ sections = NoSections
    /\ valid = FALSE
    /\ top3_line = <<>>
    /\ top3_ok = FALSE
    /\ InitValue

\* The response is written differently in one place.
EditResponse ==
    /\ pc = "given"
    /\ edits < MaxEdits
    /\ \E D \in DocEdits([segments |-> segments, entries |-> entries]) :
          /\ segments' = D.segments
          /\ entries' = D.entries
          /\ raw_text' = RenderDoc(D.segments, D.entries, 1)
    /\ edits' = edits + 1
    /\ UNCHANGED << loopVars, sections, valid, top3_line, top3_ok, valueVars >>

\* extract_sections(raw_text) and is_valid_output(raw_text) return.
ValidateOutput ==
    /\ pc = "given"
    /\ pc' = "returned"
    /\ sections' = extract_sections(raw_text)
    /\ valid' = is_valid_output(raw_text)
    /\ UNCHANGED << raw_output, repair_used, generation_error, generation_warning,
                    attempt, best_candidate, candidate, likely_truncated, shown,
                    submissions, calls, lastCall, lastNonEmpty, raised,
                    case_input, request, entries, segments, edits, raw_text, top3_line, top3_ok, valueVars >>

NextDoc == EditResponse \/ ValidateOutput

SpecDoc == InitDoc /\ [][NextDoc]_vars

\* The differentials line of the template, to be given to the
\* Differential-Block Validator.
InitDiff ==
    /\ InitSession
    /\ pc = "given"
    /\ entries = TemplateEntries
    /\ edits = 0
    /\ top3_line = RenderTop3(entries, 1)
    /\ top3_ok = FALSE
    /\ segments = <<>>
    /\ raw_text = <<>>
    /\ sections = NoSections
    /\ valid = FALSE
    /\ InitValue

\* The differentials line is written differently in one place.
EditDifferentials ==
    /\ pc = "given"
    /\ edits < MaxEdits
    /\ \E E \in DiffEdits(entries) :
          /\ entries' = E
          /\ top3_line' = RenderTop3(E, 1)
    /\ edits' = edits + 1
    /\ UNCHANGED << loopVars, segments, raw_text, sections, valid, top3_ok, valueVars >>

\* has_three_supported_differentials(top3_line) returns.
CheckDifferentials ==
    /\ pc = "given"
    /\ pc' = "returned"
    /\ top3_ok' = has_three_supported_differentials(top3_line)
    /\ UNCHANGED << raw_output, repair_used, generation_error, generation_warning,
                    attempt, best_candidate, candidate, likely_truncated, shown,
                    submissions, calls, lastCall, lastNonEmpty, raised,
                    case_input, request, entries, segments, edits, raw_text, sections, valid, top3_line,
                    valueVars >>

NextDiff == EditDifferentials \/ CheckDifferentials

SpecDiff == InitDiff /\ [][NextDiff]_vars

\* Numbers as float() reads them after strip(): an optional sign and a
\* number in decimal notation; with an optional percent sign, and white space
\* before the sign and after the number.
Numerals ==
    { pad \o sign \o << n >> \o gap \o pct :
        pad \in { <<>>, << " " >> }, sign \in { <<>>, << "-" >>, << "+" >> },
        n \in NumTokens, gap \in { <<>>, << " " >> }, pct \in { <<>>, << "%" >> } }

\* The values given to parse_posterior: numbers, and texts that are no number.
PosteriorArgs ==
    Numerals \cup { <<>>, << "%" >>, << "w" >>, << "-" >>, << "0.3", " ", "w" >>,
                    << "-", " ", "5" >>, << "5", "%", "%" >> }

\* A value is given to parse_posterior.
InitPosterior ==
    /\ InitSession
    /\ pc = "given"
    /\ entries = <<>>
    /\ segments = <<>>
    /\ edits = 0
    /\ raw_text = <<>>
    /\ sections = NoSections
    /\ valid = FALSE
    /\ top3_line = <<>>
    /\ top3_ok = FALSE
    /\ raw_value \in PosteriorArgs
    /\ posterior = NoFloat
    /\ hierarchy = "None"

\* parse_posterior(raw_value) returns.
ParsePosterior ==
    /\ pc = "given"
    /\ pc' = "returned"
    /\ posterior' = parse_posterior(raw_value)
    /\ UNCHANGED << raw_output, repair_used, generation_error, generation_warning,
                    attempt, best_candidate, candidate, likely_truncated, shown,
                    submissions, calls, lastCall, lastNonEmpty, raised,
                    case_input, request, entries, segments, edits, raw_text, sections, valid, top3_line,
                    top3_ok, raw_value, hierarchy >>

NextPosterior == ParsePosterior

SpecPosterior == InitPosterior /\ [][NextPosterior]_vars

\* Two words of a tag in the letter cases c1 and c2, sep between them.
TwoWords(i, j, c1, c2, sep) == << Cased[i][c1] >> \o sep \o << Cased[j][c2] >>

\* What is written between the two words of a tag: white space, underscores,
\* runs of them, a hyphen, a spaced hyphen, nothing.
WordSeparators ==
    { << " " >>, << "_" >>, << "-" >>, << " ", " " >>, << "_", " " >>,
      << " ", "-", " " >>, <<>> }

\* The word pairs written into a tag: those of alias_map, and others.
WordPairs ==
    { << 1, 2 >>, << 4, 2 >>, << 4, 5 >>, << 6, 2 >>, << 7, 9 >>, << 8, 9 >>,
      << 10, 7 >>, << 11, 12 >>, << 11, 13 >>, << 2, 1 >>, << 1, 9 >>, << 11, 2 >> }

\* The tags given to normalize_hierarchy: one or two words in lower case,
\* capitalised, in capitals or mixed, with and without white space around,
\* other words, and nothing.
HierarchyArgs ==
    { pad \o TwoWords(w[1], w[2], c[1], c[2], sep) \o pad :
        w \in WordPairs, c \in { << 1, 1 >>, << 2, 2 >>, << 3, 3 >>, << 2, 1 >> },
        sep \in WordSeparators, pad \in { <<>>, << " " >> } }
    \cup { pad \o << Cased[i][c] >> \o pad :
              i \in { 1, 3, 12, 13 }, c \in 1..3, pad \in { <<>>, << " " >> } }
    \cup { <<>>, << " " >>, << "w" >>, << "-" >>, << "_" >> }

\* The entries of the template with the tag of entry r written as tag.
Tagged(r, tag) == [TemplateEntries EXCEPT ![r].hierarchy = tag]

InitTag ==
    /\ InitSession
    /\ pc = "given"
    /\ raw_value \in HierarchyArgs
    /\ \E r \in 1..3 : entries = Tagged(r, raw_value)
    /\ top3_line = RenderTop3(entries, 1)
    /\ top3_ok = FALSE
    /\ posterior = NoFloat
    /\ hierarchy = "None"
    /\ segments = <<>>
    /\ edits = 0
    /\ raw_text = <<>>
    /\ sections = NoSections
    /\ valid = FALSE

\* normalize_hierarchy(raw_value) returns, and has_three_supported_differentials
\* on the line that holds the tag.
CheckTag ==
    /\ pc = "given"
    /\ pc' = "returned"
    /\ hierarchy' = normalize_hierarchy(raw_value)
    /\ top3_ok' = has_three_supported_differentials(top3_line)
    /\ UNCHANGED << raw_output, repair_used, generation_error, generation_warning,
                    attempt, best_candidate, candidate, likely_truncated, shown,
                    submissions, calls, lastCall, lastNonEmpty, raised,
                    case_input, request, entries, segments, edits, raw_text, sections, valid, top3_line,
                    raw_value, posterior >>

NextTag == CheckTag

SpecTag == InitTag /\ [][NextTag]_vars

\* ------------------------------------------------------------ the claims

Ended == pc \in {"render", "done"}
Success == Truthy(raw_output) /\ generation_warning = NoMessage /\ generation_error = NoMessage
SoftFail == Truthy(raw_output) /\ generation_warning # NoMessage /\ generation_error = NoMessage
HardFail == ~Truthy(raw_output) /\ generation_warning = NoMessage /\ generation_error # NoMessage

\* C1: whenever the loop has accepted a candidate, and whenever a submission
\* ends in the success state, the output is the text of the latest response,
\* and that text is non-empty, passes is_valid_output and was not reported
\* truncated.
C1_AcceptedOnlyIfValid ==
    ((pc = "after_loop" /\ Truthy(raw_output)) \/ (Ended /\ Success))
        => /\ raw_output = lastCall.candidate
           /\ lastCall.candidate # <<>>
           /\ is_valid_output(lastCall.candidate)
           /\ ~lastCall.truncated

\* A submission accepted the response of a repair request.
C1_Witness ==
    pc = "done" /\ Success /\ calls = 2 /\ raw_output = Strip(SampleValid)

\* C2: a response reported truncated is never accepted, even if its text
\* validates: the repair-used marker is set, no repair request is made for it
\* and the loop goes to its next attempt.
C2_TruncatedMovesOn ==
    [][ /\ (calls' = calls + 1 /\ ~raised' /\ lastCall'.truncated)
            => (repair_used' /\ ~Truthy(raw_output') /\ pc' \in {"validate", "attempt"})
        /\ (pc = "validate" /\ lastCall.truncated)
            => (pc' = "attempt" /\ attempt' = attempt + 1 /\ calls' = calls
                /\ repair_used' /\ ~Truthy(raw_output')) ]_vars

\* The first response was truncated, its text valid, and the loop is at its
\* second attempt.
C2_Witness ==
    /\ pc = "attempt" /\ attempt = 1 /\ calls = 1
    /\ lastCall.truncated /\ is_valid_output(lastCall.candidate)

\* C3: when the loop has run out of attempts and no call raised, the output is
\* the latest non-empty text any response held, with the partial-enforcement
\* warning and no error; if no response held a text, there is no output and
\* the error is the hard-failure message.
C3_ExhaustionFallback ==
    (Ended /\ ~raised /\ attempt = max_attempts)
        => IF lastNonEmpty # <<>>
           THEN /\ raw_output = lastNonEmpty
                /\ generation_warning = PartialWarning
                /\ generation_error = NoMessage
           ELSE /\ ~Truthy(raw_output)
                /\ generation_warning = NoMessage
                /\ generation_error = UnableToGenerate

\* All attempts failed; the output is the text of a repair response that is
\* not the text of the last initial response, and the last response was empty.
C3_Witness ==
    /\ pc = "done" /\ attempt = max_attempts /\ ~raised
    /\ raw_output = lastNonEmpty /\ lastNonEmpty # <<>>
    /\ lastCall.candidate = <<>> /\ candidate = <<>>
    /\ generation_warning = PartialWarning

\* C4: once a call has raised, the handler is past its loop with the generic
\* failure message as the error, no output and no warning, whatever earlier
\* responses held, and no further call is made.
C4_RaiseAborts ==
    /\ [](raised => /\ Ended
                    /\ generation_error = GenerationFailed
                    /\ ~Truthy(raw_output)
                    /\ generation_warning = NoMessage)
    /\ [][(raised /\ raised') => calls' = calls]_vars

\* The fifth call raised after responses with a text.
C4_Witness ==
    pc = "done" /\ raised /\ calls = 5 /\ lastNonEmpty # <<>> /\ shown = {"error"}

\* C5: at the end of a submission the session fields are in one of the three
\* states success, soft-fail, hard-fail, and the page never shows an error
\* together with an output.
C5_ThreeEndStates ==
    /\ Ended => (Success \/ SoftFail \/ HardFail)
    /\ (pc = "done" /\ submissions > 0) =>
          /\ ~({"error", "output"} \subseteq shown)
          /\ ("output" \in shown) = (Success \/ SoftFail)
          /\ ("error" \in shown) = HardFail
          /\ ("warning" \in shown) = SoftFail

\* A submission ended in soft-fail after one that ended otherwise.
C5_Witness ==
    pc = "done" /\ submissions = 2 /\ SoftFail /\ shown = {"output", "warning", "repair_notice"}

\* The one call made so far returned a text that passes is_valid_output and
\* was not reported truncated.
FirstResponseGood ==
    /\ calls = 1 /\ ~raised
    /\ lastCall.candidate # <<>>
    /\ is_valid_output(lastCall.candidate)
    /\ ~lastCall.truncated

\* C6: if the first response holds a text that passes is_valid_output and is
\* not reported truncated, it is accepted at once: the output is that text,
\* no second call is made and the repair-used marker stays unset.
C6_FirstAttemptAccepted ==
    [][ /\ (pc = "validate" /\ FirstResponseGood)
            => (pc' = "after_loop" /\ raw_output' = lastCall.candidate
                /\ calls' = 1 /\ ~repair_used')
        /\ (pc \in {"after_loop", "render"} /\ FirstResponseGood)
            => (raw_output' = lastCall.candidate /\ calls' = 1 /\ ~repair_used'
                /\ generation_error' = NoMessage /\ generation_warning' = NoMessage) ]_vars

C6_Witness ==
    /\ pc = "done" /\ calls = 1 /\ ~raised /\ raw_output = Strip(SampleValid)
    /\ lastCall.candidate = Strip(SampleValid) /\ ~repair_used /\ shown = {"output"}

\* A bound on the steps the handler has left: three for each attempt not yet
\* begun, and the steps left in the pass it is in.
StepsLeft ==
    3 * (max_attempts - attempt)
    + (CASE pc = "attempt" -> 5 [] pc = "validate" -> 4 [] pc = "after_loop" -> 2
         [] pc = "render" -> 1 [] OTHER -> 0)

\* C7: a submission makes at most two calls in an attempt, at most 4 attempts
\* and at most 8 calls; every step of the handler makes at most one call and
\* lowers a bound on the steps left, so the handler reaches its end.
C7_Terminates ==
    /\ [](attempt <= 4 /\ calls <= 8 /\ calls <= 2 * (attempt + 1))
    /\ [](pc \notin {"idle", "done"} => StepsLeft > 0)
    /\ [][pc \notin {"idle", "done"} => (StepsLeft' < StepsLeft /\ calls' <= calls + 1)]_vars

\* A submission ended after 8 calls.
C7_Witness == pc = "done" /\ calls = 8 /\ attempt = 4

\* ---- C8 .. C10: the validators on the texts given to them

\* The six canonical heading names, in capitals and in lower case.
CanonicalSpellings == Range(SECTION_HEADINGS) \cup Range(LowerHeadings)

\* raw_text has at index i one of the six canonical heading names, in capitals
\* or in lower case, followed by the separator "-" (white space allowed before
\* it).
HeadingAt(i) ==
    /\ raw_text[i] \in CanonicalSpellings
    /\ \E d \in (i + 1)..Len(raw_text) :
          raw_text[d] = "-" /\ \A k \in (i + 1)..(d - 1) : IsSpace(raw_text[k])

Headings == { i \in 1..Len(raw_text) : HeadingAt(i) }

HeadingMissing ==
    \E h \in 1..6 : \A i \in Headings : Upper(raw_text[i]) # SECTION_HEADINGS[h]
HeadingTwice ==
    \E i, j \in Headings : i < j /\ Upper(raw_text[i]) = Upper(raw_text[j])
HeadingsOutOfOrder ==
    \E i, j \in Headings : i < j /\ HeadingNo(raw_text[i]) > HeadingNo(raw_text[j])

\* C8: for every input in which one of the six canonical headings (followed by
\* the separator) is missing, or a heading occurs twice, or the headings occur
\* in an order other than the canonical one, extract_sections returns None and
\* is_valid_output returns False.
C8_MalformedHeadingsRejected ==
    (pc = "returned" /\ (HeadingMissing \/ HeadingTwice \/ HeadingsOutOfOrder))
        => (sections.isNone /\ ~valid)

\* All six headings once each, two of them exchanged: rejected.
C8_Witness ==
    /\ pc = "returned"
    /\ HeadingsOutOfOrder /\ ~HeadingMissing /\ ~HeadingTwice
    /\ sections.isNone /\ ~valid

\* The clues of a list as written: its items that are not blank.
Clues(list) ==
    Cardinality({ k \in 1..Len(list) : \E t \in 1..Len(list[k]) : list[k][t] # " " })

\* The probability a written posterior stands for, in percent.
Probability(p) ==
    CASE p = << "0.6" >> -> 60
      [] p = << "0.3" >> -> 30
      [] p = << "0.1" >> -> 10
      [] p = << "60", "%" >> -> 60
      [] p = << "30", "%" >> -> 30
      [] p = << "60" >> -> 60
      [] p = << "30" >> -> 30

\* The spellings of the hierarchy tag expected at ranks 1, 2 and 3.
TagSpellings ==
    << { << "root", "-", "cause" >>, << "Root", " ", "Cause" >> },
       { << "intermediate", "-", "mechanism" >> },
       { << "downstream", "-", "complication" >>, << "complication" >> } >>

\* The entries written in the template of the prompt: three entries separated
\* by "||", ranks 1..3 in position, a diagnosis, strictly decreasing
\* posteriors, the tag of the rank, >= 3 supporting and >= 1 opposing clues.
WellFormedDifferentials ==
    /\ Len(entries) = 3
    /\ \A i \in 1..3 :
          /\ entries[i].kind = "entry" /\ entries[i].dx = "Dx"
          /\ entries[i].sep = (IF i = 1 THEN "" ELSE "||")
          /\ entries[i].tail = <<>>
          /\ RankOf(entries[i].rank) = i
          /\ CharLen(entries[i].diagnosis) >= 3
          /\ entries[i].hierarchy \in TagSpellings[i]
          /\ Clues(entries[i].for) >= 3
          /\ Clues(entries[i].against) >= 1
    /\ Probability(entries[1].posterior) > Probability(entries[2].posterior)
    /\ Probability(entries[2].posterior) > Probability(entries[3].posterior)

\* The response is, after text before the first heading if any, the six
\* headed sections in canonical order, every section non-empty and ending in
\* ".", "!" or "?", the differentials section being the well-formed line of
\* entries closed by a period.
WellFormedResponse ==
    LET S == IF segments # <<>> /\ segments[1] = Preamble THEN Tail(segments) ELSE segments
    IN  /\ Len(S) = 6
        /\ \A h \in 1..6 :
              /\ S[h].sep /\ Upper(S[h].heading) = SECTION_HEADINGS[h]
              /\ S[h].body # <<>>
              /\ S[h].body[Len(S[h].body)] \in {".", "!", "?"}
              /\ S[h].top3 => (WellFormedDifferentials /\ S[h].body = << "." >>)
        /\ ~HeadingMissing /\ ~HeadingTwice /\ ~HeadingsOutOfOrder

AfterSeparator(i) ==
    \/ entries[i].sep = "||"
    \/ entries[i].sep = "|" /\ entries[i].kind = "entry" /\ entries[i].rank \in {"2", "3"}

\* The entries at which a separator-delimited block starts, and the entries
\* of the block that starts at s.
BlockStarts == { i \in 1..Len(entries) : i = 1 \/ AfterSeparator(i) }
BlockOf(s) ==
    { i \in s..Len(entries) : \A j \in (s + 1)..i : j \notin BlockStarts }

\* The entries that open a block which is not empty.
BlockFirsts ==
    { SetMin({ i \in BlockOf(s) : entries[i].kind = "entry" }) :
        s \in { t \in BlockStarts : \E i \in BlockOf(t) : entries[i].kind = "entry" } }

\* The blocks of the differentials section: what stands between two
\* separators, the empty ones left out, each given by the entry that opens
\* it.  (An entry after a single pipe that is no separator belongs to the
\* block before it: it is text after the opposing clues of that block.)
Blocks ==
    LET order == SelectSeq([i \in 1..Len(entries) |-> i], LAMBDA i : i \in BlockFirsts)
    IN  [k \in 1..Len(order) |-> entries[order[k]]]

RankOutOfPosition == \E i \in 1..Len(Blocks) : RankOf(Blocks[i].rank) # i
PosteriorsNotDecreasing ==
    \E i \in 1..(Len(Blocks) - 1) :
        Probability(Blocks[i].posterior) <= Probability(Blocks[i + 1].posterior)
TooFewSupporting == \E i \in 1..Len(Blocks) : Clues(Blocks[i].for) < 3
TooFewOpposing ==
    \E i \in BlockFirsts :
        /\ Clues(entries[i].against) < 1
        /\ i = Len(entries) \/ (i + 1) \in BlockStarts

IsNumeral == raw_value \in Numerals

\* The number written, in units of 1/10000, and whether a percent sign
\* follows it.
Written ==
    LET n == CHOOSE n \in NumTokens : \E i \in 1..Len(raw_value) : raw_value[i] = n
    IN  IF \E i \in 1..Len(raw_value) : raw_value[i] = "-"
        THEN 0 - NumValue(n) ELSE NumValue(n)
HasPercent == \E i \in 1..Len(raw_value) : raw_value[i] = "%"

\* The normalized value: a percentage and a bare value in (1, 100] are
\* divided by 100, a bare value in [0, 1] is kept.
Normalized ==
    IF HasPercent THEN Written \div 100
    ELSE IF Written > 10000 /\ Written <= 1000000 THEN Written \div 100
    ELSE Written

\* C11: parse_posterior divides a value with a trailing percent sign by 100,
\* divides a bare value in (1,100] by 100, keeps a bare value in [0,1], and
\* returns None whenever the normalized value lies outside [0,1]; "42%" gives
\* 0.42, "85" gives 0.85, "0.3" gives 0.3, "150" and "-5" give None.
C11_PosteriorNormalized ==
    pc = "returned" =>
        /\ IsNumeral =>
              posterior = IF Normalized < 0 \/ Normalized > 10000 THEN NoFloat
                          ELSE SomeFloat(Normalized)
        /\ raw_value = << "42", "%" >> => posterior = SomeFloat(4200)
        /\ raw_value = << "85" >> => posterior = SomeFloat(8500)
        /\ raw_value = << "0.3" >> => posterior = SomeFloat(3000)
        /\ raw_value = << "150" >> => posterior.isNone
        /\ raw_value = << "-", "5" >> => posterior.isNone

\* "85" has been parsed to 0.85.
C11_Witness ==
    pc = "returned" /\ raw_value = << "85" >> /\ posterior = SomeFloat(8500)

\* ---- C12: round trip of the Section Parser

RECURSIVE Serialize(_, _)
\* heading + " - " + content for the headings of SECTION_HEADINGS from h on,
\* joined line by line.
Serialize(items, h) ==
    IF h > 6 THEN <<>>
    ELSE << SECTION_HEADINGS[h], " ", "-", " " >> \o Get(items, SECTION_HEADINGS[h])
         \o (IF h < 6 THEN << "\n" >> ELSE <<>>) \o Serialize(items, h + 1)

RECURSIVE Concatenate(_, _)
\* The same, joined without anything between.
Concatenate(items, h) ==
    IF h > 6 THEN <<>>
    ELSE << SECTION_HEADINGS[h], " ", "-", " " >> \o Get(items, SECTION_HEADINGS[h])
         \o Concatenate(items, h + 1)

\* C12: for every SectionMap m returned by extract_sections, serializing m as
\* heading + " - " + content for the six headings in canonical order, joined
\* (line by line, or with nothing between), and parsing the result with
\* extract_sections again yields a SectionMap equal to m: the same six keys in
\* the same order with the same contents.
C12_RoundTrip ==
    (pc = "returned" /\ ~sections.isNone) =>
        /\ extract_sections(Serialize(sections.items, 1)) = sections
        /\ extract_sections(Concatenate(sections.items, 1)) = sections

\* A response in lower case after text before the first heading, which the
\* serialization does not reproduce, parsed to the same SectionMap again.
C12_Witness ==
    /\ pc = "returned" /\ ~sections.isNone
    /\ segments[1] = Preamble
    /\ \E h \in 1..Len(segments) : segments[h].heading = LowerHeadings[1]
    /\ Serialize(sections.items, 1) # Strip(raw_text)
    /\ extract_sections(Serialize(sections.items, 1)) = sections

\* ---- C13: the session fields carry nothing from one submission to the next

\* The handler has been entered and has made no call yet.
Started == pc = "attempt" /\ attempt = 0 /\ calls = 0

\* The last call of the submission returned a response the loop accepts.
LastCallAccepted ==
    /\ ~raised
    /\ lastCall.candidate # <<>>
    /\ ~lastCall.truncated
    /\ is_valid_output(lastCall.candidate)

\* The four fields as the calls of the present submission alone determine
\* them: how many there were, whether the last one raised, the text of the
\* last one and the latest text that was not empty.
FieldsOfSubmission ==
    [ raw_output |-> IF raised \/ lastNonEmpty = <<>> THEN NoText ELSE lastNonEmpty,
      repair_used |-> calls > 1,
      generation_error |-> IF raised THEN GenerationFailed
                           ELSE IF lastNonEmpty = <<>> THEN UnableToGenerate
                           ELSE NoMessage,
      generation_warning |-> IF ~raised /\ lastNonEmpty # <<>> /\ ~LastCallAccepted
                             THEN PartialWarning ELSE NoMessage ]

\* C13: at the start of every submission the four session fields (output,
\* repair-used marker, error, warning) hold their initial values, whatever
\* the submission before left in them, and at the end of every submission
\* their values are determined by the model responses of that submission
\* alone.
C13_FieldsPerSubmission ==
    /\ Started =>
            /\ raw_output = NoText
            /\ repair_used = FALSE
            /\ generation_error = NoMessage
            /\ generation_warning = NoMessage
    /\ pc = "done" =>
            [ raw_output |-> raw_output,
              repair_used |-> repair_used,
              generation_error |-> generation_error,
              generation_warning |-> generation_warning ] = FieldsOfSubmission

\* The second submission has started after a first one that ended with the
\* error and the repair marker set: the page still shows the error, the
\* fields hold their initial values.
C13_Witness ==
    /\ submissions = 2
    /\ Started
    /\ shown = {"error"}
    /\ generation_error = NoMessage
    /\ ~repair_used

\* ---- C14: what a SectionMap holds

\* Every content string of the map is non-empty.
AllNonEmpty(items) == \A i \in 1..Len(items) : items[i].content # <<>>

\* C14 as stated: every SectionMap returned by extract_sections has the six
\* canonical headings exactly once, in the canonical order, and every content
\* string in it is non-empty.
C14_AllNonEmpty ==
    (pc = "returned" /\ ~sections.isNone) =>
        /\ Keys(sections.items) = SECTION_HEADINGS
        /\ AllNonEmpty(sections.items)

\* C14, amended: every SectionMap returned by extract_sections has the six
\* canonical headings exactly once, in the canonical order; a content string
\* in it may be empty, and every content string is non-empty in the map of a
\* text that is_valid_output passes.
C14_KeysOnceInOrder ==
    (pc = "returned" /\ ~sections.isNone) =>
        /\ Keys(sections.items) = SECTION_HEADINGS
        /\ valid => AllNonEmpty(sections.items)

\* A response with nothing after the separator of its first heading: the
\* map has the six keys in order and an empty content string.
C14_Witness ==
    /\ pc = "returned"
    /\ ~sections.isNone
    /\ Keys(sections.items) = SECTION_HEADINGS
    /\ Get(sections.items, SECTION_HEADINGS[1]) = <<>>
    /\ ~valid

\* ---- C15: hierarchy tags

\* The two-word tags of the alias table (rows of Cased) and what each stands
\* for.
AliasPairs ==
    { << 1, 2, "root-cause" >>, << 4, 2, "root-cause" >>, << 4, 5, "root-cause" >>,
      << 6, 2, "root-cause" >>,
      << 7, 9, "intermediate-mechanism" >>, << 8, 9, "intermediate-mechanism" >>,
      << 10, 7, "intermediate-mechanism" >>,
      << 11, 12, "downstream-complication" >>, << 11, 13, "downstream-complication" >> }

\* raw_value is the tag of a in some letter case, its words separated by
\* white space, underscores or a hyphen, with or without space around.
SpellingOf(a) ==
    \E c1 \in 1..3, c2 \in 1..3, pad \in { <<>>, << " " >> },
       sep \in { << " " >>, << "_" >>, << "-" >>, << " ", " " >>, << "_", " " >> } :
        raw_value = pad \o TwoWords(a[1], a[2], c1, c2, sep) \o pad

\* The entries of the differentials line that carry the tag.
RanksTagged == { r \in 1..3 : entries[r].hierarchy = raw_value }

\* C15: a hierarchy tag is normalized without regard to letter case and to
\* the separator between its words, through the alias table ("Root Cause",
\* "rootcause" and "primary_etiology" all give root-cause); the differentials
\* line is rejected when the tag of a block is not in the table, or when the
\* normalized tag differs from the one expected for the rank of the block.
C15_HierarchyNormalized ==
    pc = "returned" =>
        /\ raw_value = << "Root", " ", "Cause" >> => hierarchy = "root-cause"
        /\ raw_value = << "rootcause" >> => hierarchy = "root-cause"
        /\ raw_value = << "primary", "_", "etiology" >> => hierarchy = "root-cause"
        /\ \A a \in AliasPairs : SpellingOf(a) => hierarchy = a[3]
        /\ hierarchy = "None" => ~top3_ok
        /\ \A r \in RanksTagged : hierarchy # expected_hierarchy[r] => ~top3_ok

\* "Root Cause" as the tag of the second block: it is normalized to
\* root-cause and the line is rejected.
C15_Witness ==
    /\ pc = "returned"
    /\ raw_value = << "Root", " ", "Cause" >>
    /\ hierarchy = "root-cause"
    /\ RanksTagged = {2}
    /\ ~top3_ok

\* ---- C16: the dedicated repair request

\* The step sends a request.
Calls == calls' = calls + 1

\* The step sends the dedicated repair request.
CallsRepair == Calls /\ request'.template = "repair"

\* The initial response of the pass is non-empty, not truncated, and fails the
\* validator.
InitialFailed ==
    /\ lastCall.candidate # <<>>
    /\ ~lastCall.truncated
    /\ ~is_valid_output(lastCall.candidate)

\* The response to the request of the step is non-empty, valid and not
\* truncated.
ResponseGood ==
    /\ ~raised'
    /\ lastCall'.candidate # <<>>
    /\ ~lastCall'.truncated
    /\ is_valid_output(lastCall'.candidate)

\* What C16 says of one step.
RepairStep ==
    /\ pc = "validate" => (CallsRepair <=> ~raised /\ InitialFailed)
    /\ pc # "validate" => ~CallsRepair
    /\ pc' = "validate" => Calls /\ request'.template = "user"
    /\ CallsRepair =>
          /\ request'.prior_output = lastCall.candidate
          /\ request'.case_data = case_input
          /\ case_input \in CaseInputs
          /\ IF ResponseGood
             THEN raw_output' = lastCall'.candidate /\ pc' = "after_loop"
             ELSE /\ raw_output' = NoText
                  /\ raised' => pc' = "render"
                  /\ ~raised' => pc' = "attempt" /\ attempt' = attempt + 1

\* C16: in a pass of the loop the dedicated repair request is sent exactly
\* when the initial candidate is non-empty, was not truncated and failed
\* is_valid_output, and once only (the request before it is always the
\* initial one); it carries that candidate as it is, with the case data of
\* the submission; the repaired candidate is accepted when it is non-empty,
\* valid and not truncated, and the loop then stops; otherwise the next pass
\* follows.  No repair request is sent for an empty, a truncated or an
\* accepted initial candidate.
C16_RepairRequest == [][RepairStep]_vars

\* A repair request that carried the failing candidate was answered with a
\* valid text, which is the output.
C16_Witness ==
    /\ pc = "after_loop"
    /\ calls = 2
    /\ request.template = "repair"
    /\ request.prior_output = Strip(SampleShort)
    /\ request.case_data = case_input
    /\ raw_output = lastCall.candidate
    /\ raw_output = Strip(SampleValid)

\* ---- C17: the number of blocks

\* The blocks that the separators delimit, and those of them that are not
\* empty.
SeparatedBlocks == Cardinality(BlockStarts)
NonEmptyBlocks == Len(Blocks)

\* C17 as stated: has_three_supported_differentials returns False whenever
\* the number of blocks between the separators is not 3, the empty blocks of
\* a doubled, leading or trailing separator counted.
C17_EmptyBlocksCounted ==
    (pc = "returned" /\ SeparatedBlocks # 3) => ~top3_ok

\* C17, amended: has_three_supported_differentials splits the section on the
\* block separator, leaves out the blocks that are empty, and returns False
\* whenever the number of blocks that remain is not 3.
C17_ThreeBlocks ==
    (pc = "returned" /\ NonEmptyBlocks # 3) => ~top3_ok

\* A fourth entry after the three of the template, and an empty block before
\* them: four blocks remain, rejected.
C17_Witness ==
    /\ pc = "returned"
    /\ NonEmptyBlocks = 4
    /\ SeparatedBlocks = 5
    /\ SubSeq(Blocks, 1, 3) = [TemplateEntries EXCEPT ![1].sep = "||"]
    /\ ~top3_ok

\* ---- C18: the clues that are counted

\* The blocks the validator reads in the differentials line.
BlocksRead == StripBlocks(BlockSplit(Strip(top3_line), 1, <<>>), 1)

\* The items of a clue list, as split_clues returns them, that are not empty.
NonEmptyItems(clues) == Cardinality({ k \in 1..Len(clues) : clues[k] # <<>> })

\* C18: in every block of an accepted differentials section the supporting
\* clue list has at least 3 items that are non-empty, and the opposing clue
\* list at least 1, an item being the text split_clues returns for it (spaces
\* and periods trimmed): an item of periods only does not count.
C18_CountedCluesNonEmpty ==
    (pc = "returned" /\ top3_ok) =>
        \A idx \in 1..Len(BlocksRead) :
            /\ NonEmptyItems(split_clues(BlockMatch(BlocksRead[idx]).for)) >= 3
            /\ NonEmptyItems(split_clues(BlockMatch(BlocksRead[idx]).against)) >= 1

\* ---- C19: what the Output Validator requires

\* raw_text is empty or white space only.
BlankInput == \A i \in 1..Len(raw_text) : IsSpace(raw_text[i])

\* The content of section h in the map, and that it is non-empty after trim and
\* ends in ".", "!" or "?".
SectionText(h) == Strip(Get(sections.items, SECTION_HEADINGS[h]))
SectionComplete(h) ==
    /\ SectionText(h) # <<>>
    /\ SectionText(h)[Len(SectionText(h))] \in { ".", "!", "?" }

\* C19: is_valid_output returns True only if extract_sections returns a map,
\* each of the six sections is non-empty after trim and ends in ".", "!" or
\* "?", and has_three_supported_differentials accepts the TOP 3 DIFFERENTIALS
\* section; an empty input and one of white space only give False.
C19_PassNeedsAllChecks ==
    pc = "returned" =>
        /\ valid =>
              /\ ~sections.isNone
              /\ \A h \in 1..6 : SectionComplete(h)
              /\ has_three_supported_differentials(Get(sections.items, SECTION_HEADINGS[3]))
        /\ BlankInput => ~valid

\* An accepted response that is not the template: a section ends in "?" and
\* a posterior is a percentage.
C19_Witness ==
    /\ pc = "returned"
    /\ valid
    /\ ~sections.isNone
    /\ \A h \in 1..6 : SectionComplete(h)
    /\ SectionText(6) = << "w", "?" >>
    /\ entries[1].posterior = << "60", "%" >>
    /\ has_three_supported_differentials(SectionText(3))

\* ---- C20: the repair marker and the number of calls

\* The output is the response of the first call, accepted.
FirstCallAccepted ==
    /\ calls = 1
    /\ LastCallAccepted
    /\ raw_output = lastCall.candidate

\* C20: at the end of every submission that leaves a non-empty output
\* (success or soft-fail), repair_used is true if and only if more than one
\* model call was made in the submission, and the repair notice is absent
\* exactly when the output is the accepted response of the very first call.
C20_RepairUsedIffMoreCalls ==
    (pc = "done" /\ Truthy(raw_output)) =>
        /\ repair_used <=> calls > 1
        /\ "repair_notice" \notin shown <=> FirstCallAccepted

\* The answer to the repair request of the first pass is the output: two
\* calls, the marker set, the notice shown.
C20_Witness ==
    /\ pc = "done"
    /\ Truthy(raw_output)
    /\ calls = 2
    /\ request.template = "repair"
    /\ generation_warning = NoMessage
    /\ repair_used
    /\ shown = {"output", "repair_notice"}

\* ---- C21: how the differentials section of an accepted output ends

\* What is written after the differentials line of the response.
StopWritten == { segments[h].body : h \in { k \in 1..Len(segments) : segments[k].top3 } }

\* The text ends with one of stops directly after a closing parenthesis.
EndsParenThen(t, stops) ==
    Len(t) >= 2 /\ t[Len(t) - 1] = ")" /\ t[Len(t)] \in stops

\* C21: the TOP 3 DIFFERENTIALS section of every output that is_valid_output
\* accepts ends with a period directly after the closing parenthesis of the
\* third block; a section written after the differentials template of the
\* prompt that ends at the closing parenthesis is accepted by
\* has_three_supported_differentials and rejected by is_valid_output; one that
\* ends in ")!" or ")?" is rejected as well.
C21_EndsParenPeriod ==
    pc = "returned" =>
        /\ valid => EndsParenThen(SectionText(3), { "." })
        /\ (~sections.isNone /\ WellFormedDifferentials /\ StopWritten = { <<>> }) =>
              /\ has_three_supported_differentials(SectionText(3))
              /\ ~valid
        /\ (~sections.isNone /\ EndsParenThen(SectionText(3), { "!", "?" })) => ~valid

\* The response of the template with the differentials line ending at its
\* closing parenthesis: the line is accepted, the response is not.
C21_Witness ==
    /\ pc = "returned"
    /\ raw_text = SampleOpen
    /\ ~sections.isNone
    /\ SectionText(3) = RenderTop3(TemplateEntries, 1)
    /\ has_three_supported_differentials(SectionText(3))
    /\ ~valid

====
